---- MODULE Spec2Model ----
(***************************************************************************)
(* Model of ProjectVersion1/vehicle_dynamics.py: the discrete-time         *)
(* (forward Euler) bicycle-model step `dynamics(xx, uu)` and the gradient  *)
(* matrices it returns.                                                    *)
(*                                                                         *)
(* Numbers.  The program computes in float64.  The model computes the same *)
(* expressions in exact arithmetic, on values of the form  a + b*theta     *)
(* with a, b rational (arbitrary precision) and theta = arctan(3/4), the   *)
(* angle whose cosine is 4/5 and whose sine is 3/5.  theta is irrational   *)
(* (indeed transcendental), so two such values are equal exactly when      *)
(* their a and b agree.  Angles are integer multiples of theta, whose      *)
(* sines and cosines are rational and are computed exactly by the angle    *)
(* addition formulas.  The float64 values Inf, -Inf and NaN are one kind,  *)
(* "nonfin"; a Python exception raised by an arithmetic operator is the    *)
(* kind "raise", which every operator propagates.                          *)
(***************************************************************************)
EXTENDS Integers, Sequences, FiniteSets, TLC

(***************************************************************************)
(* Arbitrary-precision naturals: little-endian digit sequences in radix    *)
(* Base, without high zero digits (zero is the empty sequence).            *)
(***************************************************************************)
Base == 10000

Dig(a, i) == IF i <= Len(a) THEN a[i] ELSE 0

RECURSIVE NatOf(_)
NatOf(n) == IF n = 0 THEN <<>> ELSE <<n % Base>> \o NatOf(n \div Base)

RECURSIVE Strip(_)
Strip(a) == IF a = <<>> THEN a
            ELSE IF a[Len(a)] = 0 THEN Strip(SubSeq(a, 1, Len(a) - 1)) ELSE a

RECURSIVE NAddC(_, _, _, _)
NAddC(a, b, i, c) ==
    IF i > Len(a) /\ i > Len(b)
    THEN IF c = 0 THEN <<>> ELSE <<c>>
    ELSE LET s == Dig(a, i) + Dig(b, i) + c
         IN  <<s % Base>> \o NAddC(a, b, i + 1, s \div Base)

NAdd(a, b) == IF a = <<>> THEN b ELSE IF b = <<>> THEN a ELSE NAddC(a, b, 1, 0)

\* a - b for a >= b
RECURSIVE NSubC(_, _, _, _)
NSubC(a, b, i, c) ==
    IF i > Len(a) THEN <<>>
    ELSE LET s == a[i] - Dig(b, i) - c
         IN  IF s < 0 THEN <<s + Base>> \o NSubC(a, b, i + 1, 1)
                      ELSE <<s>> \o NSubC(a, b, i + 1, 0)

NSub(a, b) == IF b = <<>> THEN a ELSE Strip(NSubC(a, b, 1, 0))

\* -1, 0, 1 as a < b, a = b, a > b
RECURSIVE NCmpAt(_, _, _)
NCmpAt(a, b, i) ==
    IF i = 0 THEN 0
    ELSE IF a[i] < b[i] THEN -1
    ELSE IF a[i] > b[i] THEN 1
    ELSE NCmpAt(a, b, i - 1)

NCmp(a, b) == IF Len(a) < Len(b) THEN -1
              ELSE IF Len(a) > Len(b) THEN 1
              ELSE NCmpAt(a, b, Len(a))

\* a times the single digit d, d > 0
RECURSIVE NMulDigC(_, _, _, _)
NMulDigC(a, d, i, c) ==
    IF i > Len(a)
    THEN IF c = 0 THEN <<>> ELSE <<c>>
    ELSE LET s == a[i] * d + c
         IN  <<s % Base>> \o NMulDigC(a, d, i + 1, s \div Base)

RECURSIVE NMulAt(_, _, _)
NMulAt(a, b, j) ==
    IF j > Len(b) THEN <<>>
    ELSE LET rest == NMulAt(a, b, j + 1)
             low  == IF b[j] = 0 THEN <<>> ELSE NMulDigC(a, b[j], 1, 0)
         IN  NAdd(low, IF rest = <<>> THEN <<>> ELSE <<0>> \o rest)

NMul(a, b) == IF a = <<>> \/ b = <<>> THEN <<>>
              ELSE IF a = <<1>> THEN b
              ELSE IF b = <<1>> THEN a
              ELSE NMulAt(a, b, 1)

(***************************************************************************)
(* Integers  [neg, mag]  (zero is never negative) and rationals  [n, d]    *)
(* with d > 0.  A rational is not kept in lowest terms: REq compares by    *)
(* cross-multiplication.                                                   *)
(***************************************************************************)
ZOf(n) == IF n < 0 THEN [neg |-> TRUE, mag |-> NatOf(-n)]
                   ELSE [neg |-> FALSE, mag |-> NatOf(n)]

ZMk(neg, mag) == [neg |-> neg /\ mag # <<>>, mag |-> mag]

ZNeg(x) == ZMk(~x.neg, x.mag)

ZAdd(x, y) ==
    IF x.neg = y.neg THEN ZMk(x.neg, NAdd(x.mag, y.mag))
    ELSE LET c == NCmp(x.mag, y.mag)
         IN  IF c = 0 THEN ZOf(0)
             ELSE IF c > 0 THEN ZMk(x.neg, NSub(x.mag, y.mag))
             ELSE ZMk(y.neg, NSub(y.mag, x.mag))

ZMul(x, y) == ZMk(x.neg # y.neg, NMul(x.mag, y.mag))

ZMulN(x, m) == ZMk(x.neg, NMul(x.mag, m))

Rat(n, d) == [n |-> ZOf(n), d |-> NatOf(d)]

RZero == Rat(0, 1)

ROne == Rat(1, 1)

RIsZero(x) == x.n.mag = <<>>

RNeg(x) == [n |-> ZNeg(x.n), d |-> x.d]

RAdd(x, y) ==
    IF RIsZero(x) THEN y
    ELSE IF RIsZero(y) THEN x
    ELSE IF x.d = y.d THEN [n |-> ZAdd(x.n, y.n), d |-> x.d]
    ELSE [n |-> ZAdd(ZMulN(x.n, y.d), ZMulN(y.n, x.d)), d |-> NMul(x.d, y.d)]

RMul(x, y) ==
    IF RIsZero(x) \/ RIsZero(y) THEN RZero
    ELSE [n |-> ZMul(x.n, y.n), d |-> NMul(x.d, y.d)]

\* x / y for y # 0
RDiv(x, y) ==
    IF RIsZero(x) THEN RZero
    ELSE [n |-> ZMk(x.n.neg # y.n.neg, NMul(x.n.mag, y.d)),
          d |-> NMul(x.d, y.n.mag)]

REq(x, y) == ZMulN(x.n, y.d) = ZMulN(y.n, x.d)

(***************************************************************************)
(* float64 values.  [k, a, b]: kind "fin" is the number a + b*theta; kind  *)
(* "nonfin" is Inf, -Inf or NaN; kind "raise" marks an exception raised    *)
(* while the value was computed.                                           *)
(***************************************************************************)
Fin(a, b) == [k |-> "fin", a |-> a, b |-> b]

NonFin == [k |-> "nonfin", a |-> RZero, b |-> RZero]

Raise == [k |-> "raise", a |-> RZero, b |-> RZero]

Q(n, d) == Fin(Rat(n, d), RZero)

Theta(j) == Fin(RZero, Rat(j, 1))

Zero == Q(0, 1)

One == Q(1, 1)

IsRational(x) == x.k = "fin" /\ RIsZero(x.b)

IsZero(x) == IsRational(x) /\ RIsZero(x.a)

\* Equality of values (of the numbers, for two finite values).
Eq(x, y) == /\ x.k = y.k
            /\ x.k = "fin" => REq(x.a, y.a) /\ REq(x.b, y.b)

\* The kind of the result of an operator applied to x and y, unless both
\* are finite: an exception propagates, and so does Inf/NaN through +, -, *.
Special(x, y) == IF x.k = "raise" \/ y.k = "raise" THEN Raise ELSE NonFin

Neg(x) == IF x.k = "fin" THEN Fin(RNeg(x.a), RNeg(x.b)) ELSE x

Add(x, y) == IF x.k = "fin" /\ y.k = "fin"
             THEN Fin(RAdd(x.a, y.a), RAdd(x.b, y.b))
             ELSE Special(x, y)

Sub(x, y) == Add(x, Neg(y))

\* One factor of every product of the program is rational (no theta part):
\* the evaluation stops with an error on any other product.
Mul(x, y) ==
    IF x.k = "fin" /\ y.k = "fin"
    THEN CASE RIsZero(x.b) -> Fin(RMul(x.a, y.a), RMul(x.a, y.b))
           [] RIsZero(y.b) -> Fin(RMul(x.a, y.a), RMul(x.b, y.a))
    ELSE Special(x, y)

\* Python's true division of a float by a float: ZeroDivisionError.
PyDiv(x, y) ==
    IF x.k = "fin" /\ y.k = "fin"
    THEN CASE IsZero(y) -> Raise
           [] IsRational(y) /\ ~IsZero(y) -> Fin(RDiv(x.a, y.a), RDiv(x.b, y.a))
    ELSE CASE y.k = "fin" \/ x.k = "raise" \/ y.k = "raise" -> Special(x, y)

\* The division done on Python floats.
DivZeroError(x, y) == PyDiv(x, y)

\* x / y with a numpy float64 operand (numpy.true_divide): x/0 is Inf, -Inf
\* or NaN, with a RuntimeWarning and no exception.  Every divisor of the
\* program is finite.
Div(x, y) ==
    IF x.k = "fin" /\ y.k = "fin"
    THEN CASE IsZero(y) -> NonFin
           [] IsRational(y) /\ ~IsZero(y) -> Fin(RDiv(x.a, y.a), RDiv(x.b, y.a))
    ELSE CASE y.k = "fin" \/ x.k = "raise" \/ y.k = "raise" -> Special(x, y)

\* <<cos, sin>> of j*theta, by the angle addition formulas from
\* cos(theta) = 4/5, sin(theta) = 3/5.
RECURSIVE CosSin(_)
CosSin(j) ==
    IF j = 0 THEN <<ROne, RZero>>
    ELSE IF j < 0 THEN LET p == CosSin(-j) IN <<p[1], RNeg(p[2])>>
    ELSE LET p == CosSin(j - 1)
         IN  <<RAdd(RMul(p[1], Rat(4, 5)), RNeg(RMul(p[2], Rat(3, 5)))),
               RAdd(RMul(p[2], Rat(4, 5)), RMul(p[1], Rat(3, 5)))>>

\* The integer j of the angle j*theta.
RECURSIVE NatVal(_)
NatVal(a) == IF a = <<>> THEN 0 ELSE a[1] + Base * NatVal(Tail(a))

AngleIndex(x) == IF x.b.n.neg THEN -NatVal(x.b.n.mag) ELSE NatVal(x.b.n.mag)

IsAngle(x) == x.k = "fin" /\ RIsZero(x.a) /\ x.b.d = <<1>>

\* numpy.cos and numpy.sin, on the angles j*theta.
Cos(x) == CASE IsAngle(x) -> Fin(CosSin(AngleIndex(x))[1], RZero)
            [] x.k # "fin" -> x

Sin(x) == CASE IsAngle(x) -> Fin(CosSin(AngleIndex(x))[2], RZero)
            [] x.k # "fin" -> x

(***************************************************************************)
(* The module constants (lines 10-21), as the module's global names hold   *)
(* them when the module has been imported.                                 *)
(***************************************************************************)
ns == 6

ni == 2

ModuleConstants ==
    [ns |-> ns, ni |-> ni,
     dt |-> Q(1, 1000),
     mm |-> Q(1480, 1), Iz |-> Q(1950, 1),
     aa |-> Q(1421, 1000), bb |-> Q(1029, 1000),
     mi |-> Q(1, 1), gg |-> Q(981, 100)]

\* numpy.zeros((r, c)): a new r x c array of 0.0.
Zeros(r, c) == [i \in 0..(r - 1) |-> [j \in 0..(c - 1) |-> Zero]]

\* squeeze() of an n x 1 array: the n-vector of its entries.
Squeeze(m) == [i \in DOMAIN m |-> m[i][0]]

\* numpy.array(rows) of a list of equally long lists: entry [i][j], from 0.
NpArray(rows) ==
    [i \in 0..(Len(rows) - 1) |->
       [j \in 0..(Len(rows[i + 1]) - 1) |-> rows[i + 1][j + 1]]]

\* numpy.array(rows).T: what a row/column mix-up would build.
NpArrayT(rows) ==
    [i \in 0..(Len(rows[1]) - 1) |->
       [j \in 0..(Len(rows) - 1) |-> rows[j + 1][i + 1]]]

(***************************************************************************)
(* The expressions of the program, as terms.  X(i) is xx[i], U(i) is       *)
(* uu[i], G(c) is the module constant c, K(v) the literal v; the other     *)
(* constructors are the operators and the numpy calls.  Eval computes the  *)
(* value of a term for given arrays xx and uu and module constants g.      *)
(***************************************************************************)
X(i) == <<"xx", i>>

U(i) == <<"uu", i>>

G(c) == <<"g", c>>

K(v) == <<"const", v>>

Plus(a, b) == <<"+", a, b>>

Minus(a, b) == <<"-", a, b>>

Times(a, b) == <<"*", a, b>>

\* a / b where a or b is a numpy float64
Over(a, b) == <<"/", a, b>>

\* a / b where a and b are Python floats
PyOver(a, b) == <<"py/", a, b>>

Negative(a) == <<"neg", a>>

SinOf(a) == <<"sin", a>>

CosOf(a) == <<"cos", a>>

RECURSIVE Eval(_, _, _, _)
Eval(e, xx, uu, g) ==
    CASE e[1] = "xx" -> xx[e[2]]
      [] e[1] = "uu" -> uu[e[2]]
      [] e[1] = "g" -> g[e[2]]
      [] e[1] = "const" -> e[2]
      [] e[1] = "+" -> Add(Eval(e[2], xx, uu, g), Eval(e[3], xx, uu, g))
      [] e[1] = "-" -> Sub(Eval(e[2], xx, uu, g), Eval(e[3], xx, uu, g))
      [] e[1] = "*" -> Mul(Eval(e[2], xx, uu, g), Eval(e[3], xx, uu, g))
      [] e[1] = "/" -> Div(Eval(e[2], xx, uu, g), Eval(e[3], xx, uu, g))
      [] e[1] = "py/" -> PyDiv(Eval(e[2], xx, uu, g), Eval(e[3], xx, uu, g))
      [] e[1] = "neg" -> Neg(Eval(e[2], xx, uu, g))
      [] e[1] = "sin" -> Sin(Eval(e[2], xx, uu, g))
      [] e[1] = "cos" -> Cos(Eval(e[2], xx, uu, g))

(***************************************************************************)
(* dynamics(xx, uu), lines 32-106, expression by expression.  The names    *)
(* are the program's.                                                      *)
(***************************************************************************)
dt == G("dt")

mm == G("mm")

Iz == G("Iz")

aa == G("aa")

bb == G("bb")

mi == G("mi")

gg == G("gg")

\* Slip angles with the axle distances aa and bb exchanged.
BetaSwapped ==
    [i \in 0..1 |->
       IF i = 0
       THEN Minus(U(0), Over(Plus(Times(X(3), SinOf(X(4))), Times(bb, X(5))),
                             Times(X(3), CosOf(X(4)))))
       ELSE Negative(Over(Minus(Times(X(3), SinOf(X(4))), Times(aa, X(5))),
                          Times(X(3), CosOf(X(4)))))]

\* lines 54-57: slip angles, front [0] and rear [1]
Beta ==
    [i \in 0..1 |->
       IF i = 0
       THEN Minus(U(0), Over(Plus(Times(X(3), SinOf(X(4))), Times(aa, X(5))),
                             Times(X(3), CosOf(X(4)))))
       ELSE Negative(Over(Minus(Times(X(3), SinOf(X(4))), Times(bb, X(5))),
                          Times(X(3), CosOf(X(4)))))]

\* line 60: vertical forces
Fz ==
    [i \in 0..1 |->
       IF i = 0
       THEN PyOver(Times(Times(mm, gg), bb), Plus(aa, bb))
       ELSE PyOver(Times(Times(mm, gg), aa), Plus(aa, bb))]

\* line 63: lateral forces
Fy == [i \in 0..1 |-> Times(Times(mi, Fz[i]), Beta[i])]

\* X advanced with the sine and the cosine of the heading exchanged.
xxp_0_swapped ==
    Plus(X(0), Times(dt, Minus(Times(Times(X(3), CosOf(X(4))), SinOf(X(2))),
                               Times(Times(X(3), SinOf(X(4))), CosOf(X(2))))))

\* line 66
xxp_0 ==
    Plus(X(0), Times(dt, Minus(Times(Times(X(3), CosOf(X(4))), CosOf(X(2))),
                               Times(Times(X(3), SinOf(X(4))), SinOf(X(2))))))

\* line 67
xxp_1 ==
    Plus(X(1), Times(dt, Plus(Times(Times(X(3), CosOf(X(4))), SinOf(X(2))),
                              Times(Times(X(3), SinOf(X(4))), CosOf(X(2))))))

\* The heading integrated from the sideslip angle instead of the yaw rate.
xxp_2_beta == Plus(X(2), Times(dt, X(4)))

\* line 68
xxp_2 == Plus(X(2), Times(dt, X(5)))

\* line 69
xxp_3 ==
    Plus(X(3),
         Times(dt, Over(Plus(Plus(Times(Fy[1], SinOf(X(4))),
                                  Times(U(1), CosOf(Minus(X(4), U(0))))),
                             Times(Fy[0], SinOf(Minus(X(4), U(0))))),
                        mm)))

\* line 70
xxp_4 ==
    Plus(X(4),
         Times(dt, Minus(Over(Minus(Plus(Times(Fy[1], CosOf(X(4))),
                                         Times(Fy[0], CosOf(Minus(X(4), U(0))))),
                                    Times(U(1), SinOf(Minus(X(4), U(0))))),
                              Times(mm, X(3))),
                         X(5))))

\* line 71
xxp_5 ==
    Plus(X(5),
         Times(dt, Over(Minus(Times(Plus(Times(U(1), SinOf(U(0))),
                                         Times(Fy[0], CosOf(U(0)))), aa),
                              Times(Fy[1], bb)),
                        Iz)))

\* lines 51, 66-71 and 102: the preallocated ns x 1 column, its six entries
\* assigned, squeezed to a vector
xxp(xx, uu, g) ==
    LET col == Zeros(g.ns, 1)
        rhs == <<xxp_0, xxp_1, xxp_2, xxp_3, xxp_4, xxp_5>>
        set == [i \in DOMAIN col |->
                  [j \in DOMAIN col[i] |->
                     IF i + 1 \in DOMAIN rhs
                     THEN Eval(rhs[i + 1], xx, uu, g)
                     ELSE col[i][j]]]
    IN  Squeeze(set)

\* lines 79-82
cos_xx4 == CosOf(X(4))

sin_xx4 == SinOf(X(4))

cos_xx4_minus_uu0 == CosOf(Minus(X(4), U(0)))

sin_xx4_minus_uu0 == SinOf(Minus(X(4), U(0)))

\* line 83 (xx[3]**2 is xx[3]*xx[3])
m_xx3_sq == Times(mm, Times(X(3), X(3)))

\* lines 89-90: the third row of the array literal
fx_2 ==
    <<Times(dt, Minus(Times(Times(Negative(X(3)), cos_xx4), SinOf(X(2))),
                      Times(Times(X(3), sin_xx4), CosOf(X(2))))),
      Times(dt, Minus(Times(Times(X(3), cos_xx4), CosOf(X(2))),
                      Times(Times(X(3), sin_xx4), SinOf(X(2))))),
      K(One), K(Zero), K(Zero), K(Zero)>>

\* lines 91-93
fx_3 ==
    <<Times(dt, Minus(Times(CosOf(X(4)), CosOf(X(2))),
                      Times(SinOf(X(4)), SinOf(X(2))))),
      Times(dt, Plus(Times(CosOf(X(4)), SinOf(X(2))),
                     Times(SinOf(X(4)), CosOf(X(2))))),
      K(Zero), K(One),
      Times(dt, Times(Minus(Plus(Times(Fy[1], CosOf(X(4))),
                                 Times(Fy[0], CosOf(Minus(X(4), U(0))))),
                            Times(U(1), SinOf(Minus(X(4), U(0))))),
                      Over(Negative(K(One)), m_xx3_sq))),
      K(Zero)>>

\* The fifth row with its two force entries exchanged.
fx_4_swapped ==
    <<Times(dt, Minus(Times(Times(Negative(X(3)), sin_xx4), CosOf(X(2))),
                      Times(Times(X(3), cos_xx4), SinOf(X(2))))),
      Times(dt, Plus(Times(Times(Negative(X(3)), sin_xx4), SinOf(X(2))),
                     Times(Times(X(3), cos_xx4), CosOf(X(2))))),
      K(Zero),
      Plus(K(One),
           Times(dt, Over(Minus(Minus(Times(Negative(Fy[1]), SinOf(X(4))),
                                      Times(Fy[0], SinOf(Minus(X(4), U(0))))),
                                Times(U(1), CosOf(Minus(X(4), U(0))))),
                          Times(mm, X(3))))),
      Times(dt, Over(Plus(Minus(Times(Fy[1], CosOf(X(4))),
                                Times(U(1), SinOf(Minus(X(4), U(0))))),
                          Times(Fy[0], CosOf(Minus(X(4), U(0))))),
                     mm)),
      K(Zero)>>

\* lines 94-97
fx_4 ==
    <<Times(dt, Minus(Times(Times(Negative(X(3)), sin_xx4), CosOf(X(2))),
                      Times(Times(X(3), cos_xx4), SinOf(X(2))))),
      Times(dt, Plus(Times(Times(Negative(X(3)), sin_xx4), SinOf(X(2))),
                     Times(Times(X(3), cos_xx4), CosOf(X(2))))),
      K(Zero),
      Times(dt, Over(Plus(Minus(Times(Fy[1], CosOf(X(4))),
                                Times(U(1), SinOf(Minus(X(4), U(0))))),
                          Times(Fy[0], CosOf(Minus(X(4), U(0))))),
                     mm)),
      Plus(K(One),
           Times(dt, Over(Minus(Minus(Times(Negative(Fy[1]), SinOf(X(4))),
                                      Times(Fy[0], SinOf(Minus(X(4), U(0))))),
                                Times(U(1), CosOf(Minus(X(4), U(0))))),
                          Times(mm, X(3))))),
      K(Zero)>>

\* The last row with the sign of -dt lost.
fx_5_sign == <<K(Zero), K(Zero), dt, K(Zero), dt, K(One)>>

\* line 98
fx_5 == <<K(Zero), K(Zero), dt, K(Zero), Negative(dt), K(One)>>

\* lines 86-99: the list of six rows handed to numpy.array
fx_rows ==
    << <<K(One), K(Zero), K(Zero), K(Zero), K(Zero), K(Zero)>>,
       <<K(Zero), K(One), K(Zero), K(Zero), K(Zero), K(Zero)>>,
       fx_2, fx_3, fx_4, fx_5 >>

EvalRows(rows, xx, uu, g) ==
    [i \in DOMAIN rows |-> [j \in DOMAIN rows[i] |-> Eval(rows[i][j], xx, uu, g)]]

\* The rows stored as columns.
fx_transposed(xx, uu, g) == NpArrayT(EvalRows(fx_rows, xx, uu, g))

\* lines 86-99 (line 103 discards the value of fx.squeeze())
fx(xx, uu, g) == NpArray(EvalRows(fx_rows, xx, uu, g))

\* The gradient with respect to the input stored as ns rows of ni entries.
fu_transposed(g) == Zeros(g.ns, g.ni)

\* line 76 (line 104 discards the value of fu.squeeze())
fu(g) == Zeros(g.ni, g.ns)

\* An exception raised by any operator ends the call.
Raised(vec, mat) ==
    \/ \E i \in DOMAIN vec : vec[i].k = "raise"
    \/ \E i \in DOMAIN mat : \E j \in DOMAIN mat[i] : mat[i][j].k = "raise"

\* The next state written into the caller's state array.
ArgsInPlace(xx, uu, g) == [xx |-> xxp(xx, uu, g), uu |-> uu]

\* The caller's arrays after the call: no statement of dynamics assigns to
\* an entry of xx or uu (lines 47-48, which would rebind the names, are
\* comments).
ArgsAfter(xx, uu, g) == [xx |-> xx, uu |-> uu]

\* The step size halved by each call.
GlobalsHalved(g) == [g EXCEPT !.dt = Mul(g.dt, Q(1, 2))]

\* The module's global names after the call: dynamics has no `global`
\* statement and assigns to no module-level name.
GlobalsAfter(g) == g

\* The objects returned, each named by the call that creates it: the view
\* xxp.squeeze() of the array of line 51 (line 102), the array of line 86,
\* the array of line 76.  "xx" and "uu" are the argument arrays.
Objects == [xxp |-> "zeros@51", fx |-> "array@86", fu |-> "zeros@76"]

\* One call: what it raises or returns, and what it leaves behind.
Dynamics(xx, uu, g) ==
    LET v == xxp(xx, uu, g)
        m == fx(xx, uu, g)
    IN  [raised |-> Raised(v, m),
         xxp |-> v, fx |-> m, fu |-> fu(g),
         obj |-> Objects,
         args |-> ArgsAfter(xx, uu, g),
         glob |-> GlobalsAfter(g)]

Vec6(a, b, c, d, e, f) ==
    [i \in 0..5 |-> CASE i = 0 -> a [] i = 1 -> b [] i = 2 -> c
                      [] i = 3 -> d [] i = 4 -> e [] i = 5 -> f]

Vec2(a, b) == [i \in 0..1 |-> IF i = 0 THEN a ELSE b]

(***************************************************************************)
(* The caller.  It holds a state array xx and an input array uu, whose     *)
(* entries it takes from a grid.  It calls dynamics(xx, uu) with its       *)
(* initial arrays, and then again and again: with the same arrays, or      *)
(* after it has changed one entry of one of them (the probe of a           *)
(* finite-difference check).                                               *)
(***************************************************************************)
MaxAng == 1

MaxSpeed == 2

\* Positions in m, yaw rates in rad/s, speeds in multiples of 5 m/s,
\* forces in multiples of 100 N, angles in multiples of theta.
Positions == {Q(n, 1) : n \in {0, 1}}

YawRates == {Q(n, 1) : n \in {0, 1}}

Speeds == {Q(5 * n, 1) : n \in 0..MaxSpeed}

Forces == {Q(100 * n, 1) : n \in {0, 1}}

Angles == {Theta(j) : j \in 0..MaxAng}

StateValues(i) ==
    CASE i \in {0, 1} -> Positions
      [] i \in {2, 4} -> Angles
      [] i = 3 -> Speeds
      [] i = 5 -> YawRates

InputValues(i) == IF i = 0 THEN Angles ELSE Forces

\* The arrays the caller starts from: straight ahead at 10 m/s.
InitialState == Vec6(Q(0, 1), Q(0, 1), Theta(0), Q(10, 1), Theta(0), Q(0, 1))

InitialInput == Vec2(Theta(0), Q(0, 1))

NoValue == <<>>

VARIABLES
    glob,     \* the module's global names ns, ni, dt, mm, Iz, aa, bb, mi, gg
    xx,       \* the caller's state array
    uu,       \* the caller's input array
    passed,   \* the contents of xx and uu when the last call was made
    outcome,  \* of the last call: "none" (no call yet), "returned", "raised"
    ret,      \* the values returned by the last call: [xxp, fx, fu]
    obj,      \* the objects returned by the last call
    first,    \* the first call made: [xx, uu, outcome, ret]
    varied    \* a call has been made with other arguments than the first

vars == <<glob, xx, uu, passed, outcome, ret, obj, first, varied>>

Init ==
    /\ glob = ModuleConstants
    /\ xx = InitialState
    /\ uu = InitialInput
    /\ passed = NoValue
    /\ outcome = "none"
    /\ ret = NoValue
    /\ obj = NoValue
    /\ first = NoValue
    /\ varied = FALSE

\* dynamics(x, u), called with the arrays x and u.
DoCall(x, u) ==
    \E res \in {Dynamics(x, u, glob)} :
    LET out == IF res.raised THEN "raised" ELSE "returned"
        val == IF res.raised THEN NoValue
               ELSE [xxp |-> res.xxp, fx |-> res.fx, fu |-> res.fu]
    IN  /\ passed' = [xx |-> x, uu |-> u]
        /\ xx' = res.args.xx
        /\ uu' = res.args.uu
        /\ glob' = res.glob
        /\ outcome' = out
        /\ ret' = val
        /\ obj' = IF res.raised THEN NoValue ELSE res.obj
        /\ first' = IF first = NoValue
                    THEN [xx |-> x, uu |-> u, outcome |-> out, ret |-> val]
                    ELSE first
        /\ varied' = (varied \/ (first # NoValue /\ (x # first.xx \/ u # first.uu)))

\* The caller calls dynamics with its arrays as they are.
Call == DoCall(xx, uu)

\* The caller changes one entry of its state array and calls.
StepState ==
    /\ outcome # "none"
    /\ \E i \in 0..5 : \E v \in StateValues(i) \ {xx[i]} :
           DoCall([xx EXCEPT ![i] = v], uu)

\* The caller changes one entry of its input array and calls.
StepInput ==
    /\ outcome # "none"
    /\ \E i \in 0..1 : \E v \in InputValues(i) \ {uu[i]} :
           DoCall(xx, [uu EXCEPT ![i] = v])

Next == Call \/ StepState \/ StepInput

Spec == Init /\ [][Next]_vars

(***************************************************************************)
(* The quantities of the specification (its section 4.1), for a state      *)
(* p = [X, Y, psi, V, beta, omega] and an input q = [delta, Fx], with the  *)
(* parameters and the step size of the module.                             *)
(***************************************************************************)
P == ModuleConstants

SpecBetaF(p, q) ==
    Sub(q[0], Div(Add(Mul(p[3], Sin(p[4])), Mul(P.aa, p[5])),
                  Mul(p[3], Cos(p[4]))))

SpecBetaR(p, q) ==
    Neg(Div(Sub(Mul(p[3], Sin(p[4])), Mul(P.bb, p[5])), Mul(p[3], Cos(p[4]))))

SpecFzF == Div(Mul(Mul(P.mm, P.gg), P.bb), Add(P.aa, P.bb))

SpecFzR == Div(Mul(Mul(P.mm, P.gg), P.aa), Add(P.aa, P.bb))

SpecFyF(p, q) == Mul(Mul(P.mi, SpecFzF), SpecBetaF(p, q))

SpecFyR(p, q) == Mul(Mul(P.mi, SpecFzR), SpecBetaR(p, q))

\* Fy_r*cos(beta) + Fy_f*cos(beta - delta) - Fx*sin(beta - delta)
SpecLateral(p, q) ==
    Sub(Add(Mul(SpecFyR(p, q), Cos(p[4])),
            Mul(SpecFyF(p, q), Cos(Sub(p[4], q[0])))),
        Mul(q[1], Sin(Sub(p[4], q[0]))))

\* Fy_r*sin(beta) + Fx*cos(beta - delta) + Fy_f*sin(beta - delta)
SpecLongitudinal(p, q) ==
    Add(Add(Mul(SpecFyR(p, q), Sin(p[4])),
            Mul(q[1], Cos(Sub(p[4], q[0])))),
        Mul(SpecFyF(p, q), Sin(Sub(p[4], q[0]))))

\* The six forward-Euler formulas.
SpecNext(p, q) ==
    Vec6(Add(p[0], Mul(P.dt, Sub(Mul(Mul(p[3], Cos(p[4])), Cos(p[2])),
                                 Mul(Mul(p[3], Sin(p[4])), Sin(p[2]))))),
         Add(p[1], Mul(P.dt, Add(Mul(Mul(p[3], Cos(p[4])), Sin(p[2])),
                                 Mul(Mul(p[3], Sin(p[4])), Cos(p[2]))))),
         Add(p[2], Mul(P.dt, p[5])),
         Add(p[3], Div(Mul(P.dt, SpecLongitudinal(p, q)), P.mm)),
         Add(p[4], Mul(P.dt, Sub(Div(SpecLateral(p, q), Mul(P.mm, p[3])), p[5]))),
         Add(p[5], Mul(P.dt, Div(Sub(Mul(Add(Mul(q[1], Sin(q[0])),
                                             Mul(SpecFyF(p, q), Cos(q[0]))),
                                         P.aa),
                                     Mul(SpecFyR(p, q), P.bb)),
                                 P.Iz))))

\* The partial derivatives of X' and Y' with respect to psi, V and beta.
dX_dpsi(p) == Mul(P.dt, Sub(Mul(Mul(Neg(p[3]), Cos(p[4])), Sin(p[2])),
                            Mul(Mul(p[3], Sin(p[4])), Cos(p[2]))))

dX_dV(p) == Mul(P.dt, Sub(Mul(Cos(p[4]), Cos(p[2])), Mul(Sin(p[4]), Sin(p[2]))))

dX_dbeta(p) == Mul(P.dt, Sub(Mul(Mul(Neg(p[3]), Sin(p[4])), Cos(p[2])),
                             Mul(Mul(p[3], Cos(p[4])), Sin(p[2]))))

dY_dV(p) == Mul(P.dt, Add(Mul(Cos(p[4]), Sin(p[2])), Mul(Sin(p[4]), Cos(p[2]))))

dY_dbeta(p) == Mul(P.dt, Add(Mul(Mul(Neg(p[3]), Sin(p[4])), Sin(p[2])),
                             Mul(Mul(p[3], Cos(p[4])), Cos(p[2]))))

\* E, F and G of the specification's rows 3 and 4.
SpecE(p, q) ==
    Mul(P.dt, Mul(SpecLateral(p, q), Div(Neg(One), Mul(P.mm, Mul(p[3], p[3])))))

SpecF(p, q) ==
    Mul(P.dt, Div(Add(Sub(Mul(SpecFyR(p, q), Cos(p[4])),
                          Mul(q[1], Sin(Sub(p[4], q[0])))),
                      Mul(SpecFyF(p, q), Cos(Sub(p[4], q[0])))),
                  P.mm))

SpecG(p, q) ==
    Add(One, Mul(P.dt, Div(Sub(Sub(Mul(Neg(SpecFyR(p, q)), Sin(p[4])),
                                   Mul(SpecFyF(p, q), Sin(Sub(p[4], q[0])))),
                               Mul(q[1], Cos(Sub(p[4], q[0])))),
                           Mul(P.mm, p[3]))))

\* Entry by entry equality of a vector (from 0) and a tuple (from 1).
SameRow(vec, tup) ==
    /\ DOMAIN vec = 0..(Len(tup) - 1)
    /\ \A j \in DOMAIN vec : Eq(vec[j], tup[j + 1])

Row(mat, i) == mat[i]

Column(mat, j) == [i \in DOMAIN mat |-> mat[i][j]]

\* The last call returned.
Returned == outcome = "returned"

\* The last call returned and its state was valid: V # 0 and cos(beta) # 0.
ReturnedValid ==
    /\ outcome = "returned"
    /\ ~IsZero(passed.xx[3])
    /\ ~IsZero(Cos(passed.xx[4]))

\* The last call was a cornering one: no angle, rate or force was zero.
Cornering ==
    /\ ReturnedValid
    /\ \A i \in {2, 4, 5} : ~IsZero(passed.xx[i])
    /\ \A i \in {0, 1} : ~IsZero(passed.uu[i])

(***************************************************************************)
(* C1.  For a valid state (V # 0, cos(beta) # 0) and any input, the next   *)
(* state returned is the one the six forward-Euler formulas give, with     *)
(* the linear tire forces Fy = mu*Fz*slip angle; and psi' = psi + dt*omega *)
(* for every call that returns, whatever u, V, beta and the forces are.    *)
(***************************************************************************)
C1_EulerStep ==
    /\ Returned =>
         /\ DOMAIN ret.xxp = 0..5
         /\ Eq(ret.xxp[2], Add(passed.xx[2], Mul(P.dt, passed.xx[5])))
    /\ ReturnedValid =>
         \A i \in 0..5 : Eq(ret.xxp[i], SpecNext(passed.xx, passed.uu)[i])

C1_Witness == Cornering /\ ~Eq(ret.xxp[3], passed.xx[3])

C3_Original ==
    ReturnedValid =>
      /\ SameRow(Row(ret.fx, 2), <<Zero, Zero, One, Zero, Zero, P.dt>>)
      /\ SameRow(Row(ret.fx, 5), <<Zero, Zero, P.dt, Zero, Neg(P.dt), One>>)

(***************************************************************************)
(* C3, amended: for valid inputs, column 2 of fx (the entries fx[i][2]) is *)
(* [0,0,1,0,0,dt] and row 5 is [0,0,dt,0,-dt,1]; row 2 is                  *)
(* [dX'/dpsi, dY'/dpsi, 1, 0, 0, 0], which depends on the state.           *)
(***************************************************************************)
C3_Amended ==
    ReturnedValid =>
      /\ SameRow(Column(ret.fx, 2), <<Zero, Zero, One, Zero, Zero, P.dt>>)
      /\ SameRow(Row(ret.fx, 5), <<Zero, Zero, P.dt, Zero, Neg(P.dt), One>>)

C3_Witness == Cornering /\ ~IsZero(ret.fx[2][0]) /\ ~IsZero(ret.fx[2][1])

(***************************************************************************)
(* C4.  The probe of a finite-difference check: two calls in a row, both   *)
(* returning with valid states, whose inputs agree and whose states        *)
(* differ in the one entry i, by eps.                                      *)
(***************************************************************************)
ValidCall(o, p) == o = "returned" /\ ~IsZero(p.xx[3]) /\ ~IsZero(Cos(p.xx[4]))

Probe(i) ==
    /\ ValidCall(outcome, passed)
    /\ ValidCall(outcome', passed')
    /\ passed'.uu = passed.uu
    /\ passed'.xx[i] # passed.xx[i]
    /\ \A j \in 0..5 : j # i => passed'.xx[j] = passed.xx[j]

\* next_state(x + eps*e_i)[k] - next_state(x)[k] = eps * d
DifferenceIs(i, k, d) ==
    Eq(Sub(ret'.xxp[k], ret.xxp[k]), Mul(Sub(passed'.xx[i], passed.xx[i]), d))

StraightLine ==
    /\ ReturnedValid
    /\ IsZero(passed.xx[4])
    /\ IsZero(passed.xx[5])
    /\ IsZero(passed.uu[0])

C5_StraightLine ==
    /\ StraightLine =>
         /\ \A i \in 0..1 :
              /\ IsZero(Eval(Beta[i], passed.xx, passed.uu, glob))
              /\ IsZero(Eval(Fy[i], passed.xx, passed.uu, glob))
         /\ Eq(ret.xxp[2], passed.xx[2])
         /\ IsZero(ret.xxp[5])
         /\ IsZero(ret.xxp[4])
         /\ Eq(ret.xxp[0], Add(passed.xx[0],
                               Mul(Mul(P.dt, passed.xx[3]), Cos(passed.xx[2]))))
         /\ Eq(ret.xxp[1], Add(passed.xx[1],
                               Mul(Mul(P.dt, passed.xx[3]), Sin(passed.xx[2]))))
    /\ (Returned /\ passed.xx = InitialState /\ passed.uu = InitialInput) =>
         SameRow(ret.xxp, <<Q(1, 100), Zero, Zero, Q(10, 1), Zero, Zero>>)

C5_Witness ==
    /\ StraightLine
    /\ ~IsZero(passed.xx[2])
    /\ ~IsZero(passed.uu[1])
    /\ ~Eq(ret.xxp[1], passed.xx[1])

(***************************************************************************)
(* C6.  With V = 0, whatever the rest of the state and the input, the call *)
(* returns its three values and raises nothing; the entries that depend on *)
(* the slip angles are Inf or NaN.                                         *)
(***************************************************************************)
C6_Singular ==
    (outcome # "none" /\ IsZero(passed.xx[3])) =>
      /\ outcome = "returned"
      /\ {DOMAIN ret.xxp, DOMAIN ret.fx} = {0..5}
      /\ DOMAIN ret.fu = 0..1
      /\ \A i \in 3..5 : ret.xxp[i].k = "nonfin"
      /\ ret.fx[3][4].k = "nonfin"
      /\ ret.fx[4][3].k = "nonfin"
      /\ ret.fx[4][4].k = "nonfin"

C6_Witness ==
    /\ Returned
    /\ IsZero(passed.xx[3])
    /\ ~IsZero(passed.xx[4])
    /\ ~IsZero(passed.xx[5])
    /\ ret.xxp[2].k = "fin"

SpecRow0(p) == <<One, Zero, dX_dpsi(p), dX_dV(p), dX_dbeta(p), Zero>>

C9_Original == ReturnedValid => SameRow(Row(ret.fx, 0), SpecRow0(passed.xx))

(***************************************************************************)
(* C9, amended: for valid inputs, column 0 of fx (the entries fx[i][0]) is *)
(* [1, 0, dX'/dpsi, dX'/dV, dX'/dbeta, 0]; row 0 is [1,0,0,0,0,0].         *)
(***************************************************************************)
C9_Amended ==
    ReturnedValid =>
      /\ SameRow(Column(ret.fx, 0), SpecRow0(passed.xx))
      /\ SameRow(Row(ret.fx, 0), <<One, Zero, Zero, Zero, Zero, Zero>>)

C9_Witness ==
    /\ Cornering
    /\ \A i \in 2..4 : ~IsZero(ret.fx[i][0])

(***************************************************************************)
(* C10, as claimed: for valid inputs, row 3 of fx is [0,0,0,1,E,0] and row *)
(* 4 is [0,0,0,F,G,0].                                                     *)
(***************************************************************************)
C10_Original ==
    ReturnedValid =>
      /\ SameRow(Row(ret.fx, 3),
                 <<Zero, Zero, Zero, One, SpecE(passed.xx, passed.uu), Zero>>)
      /\ SameRow(Row(ret.fx, 4),
                 <<Zero, Zero, Zero, SpecF(passed.xx, passed.uu),
                   SpecG(passed.xx, passed.uu), Zero>>)

(***************************************************************************)
(* C10, amended: for valid inputs, rows 3 and 4 of fx have zeros in        *)
(* columns 2 and 5: row 3 is [dX'/dV, dY'/dV, 0, 1, E, 0] and row 4 is     *)
(* [dX'/dbeta, dY'/dbeta, 0, F, G, 0], with E, F and G as claimed.         *)
(***************************************************************************)
C10_Amended ==
    ReturnedValid =>
      /\ SameRow(Row(ret.fx, 3),
                 <<dX_dV(passed.xx), dY_dV(passed.xx), Zero, One,
                   SpecE(passed.xx, passed.uu), Zero>>)
      /\ SameRow(Row(ret.fx, 4),
                 <<dX_dbeta(passed.xx), dY_dbeta(passed.xx), Zero,
                   SpecF(passed.xx, passed.uu), SpecG(passed.xx, passed.uu), Zero>>)

C10_Witness ==
    /\ Cornering
    /\ \A j \in {0, 1, 4} : ~IsZero(ret.fx[3][j])
    /\ \A j \in {0, 1, 3} : ~IsZero(ret.fx[4][j])
    /\ ~Eq(ret.fx[4][3], ret.fx[4][4])

====
